---- MODULE Spec2Model ----
(***************************************************************************)
(* A model of pkg/client/imdb.go: the IMDb client of imdb-trakt-sync.       *)
(*                                                                         *)
(* The client is a state machine: its state is the ImdbConfig it holds     *)
(* (two cookie values, the user id, the watchlist id) and its cookie jar,  *)
(* which every answered request may change;                                *)
(* its operations are the constructor and the exported methods.  Every     *)
(* operation is one action: the server's answers are the action's inputs,  *)
(* and the action records the requests it sent, the answers it got and     *)
(* the (value, error) pair it returned, or that it panicked.               *)
(*                                                                         *)
(* Texts (urls, csv bodies, header values, names) are TLA+ strings and are *)
(* processed character by character, as the Go code and the library        *)
(* functions it calls process them.                                        *)
(***************************************************************************)
EXTENDS Integers, Sequences, FiniteSets, TLC

VARIABLES config, jar, pc, call, served, result

vars == <<config, jar, pc, call, served, result>>

(***************************************************************************)
(* Bounds of the model.                                                    *)
(***************************************************************************)
\* longest list name given to buildTraktListName on its own
MaxLen == 3
\* most data rows of a csv export body
MaxRows == 2
\* most elements of the lists-overview page
MaxLists == 2

(***************************************************************************)
(* Constants of the source.                                                *)
(***************************************************************************)
imdbCookieNameAtMain == "at-main"
imdbCookieNameUbidMain == "ubid-main"
imdbHeaderKeyContentDisposition == "Content-Disposition"
imdbPathBase == "https://www.imdb.com"
imdbPathProfile == "/profile"
imdbPathWatchlist == "/watchlist"
imdbPathListExport(id) == "/list/" \o id \o "/export"
imdbPathLists(id) == "/user/" \o id \o "/lists"
imdbPathRatingsExport(id) == "/user/" \o id \o "/ratings/export"
MethodGet == "GET"
StatusOK == 200
StatusForbidden == 403
StatusNotFound == 404
\* declared in another file of package client
clientNameImdb == "imdb"

(***************************************************************************)
(* Strings, character by character.                                        *)
(***************************************************************************)
Char(s, i) == SubSeq(s, i, i)

Digits == "0123456789"
LowerLetters == "abcdefghijklmnopqrstuvwxyz"
UpperLetters == "ABCDEFGHIJKLMNOPQRSTUVWXYZ"

\* the first position of character c in s, 0 when it does not occur
IndexOf(s, c) ==
  LET hits == {i \in 1..Len(s) : Char(s, i) = c}
  IN IF hits = {} THEN 0 ELSE CHOOSE i \in hits : \A j \in hits : i <= j

IsDigit(c) == IndexOf(Digits, c) > 0
IsLower(c) == IndexOf(LowerLetters, c) > 0
IsUpper(c) == IndexOf(UpperLetters, c) > 0
\* unicode.IsSpace on the characters a TLA+ string can hold
IsSpace(c) == c \in {" ", "\t", "\n", "\r", "\f"}

\* strings.Split(s, sep) for a one-character separator: never empty
RECURSIVE Split(_, _)
Split(s, sep) ==
  LET i == IndexOf(s, sep)
  IN IF i = 0 THEN <<s>>
     ELSE <<SubSeq(s, 1, i - 1)>> \o Split(SubSeq(s, i + 1, Len(s)), sep)

\* strings.Join
RECURSIVE Join(_, _)
Join(parts, sep) ==
  IF Len(parts) = 0 THEN ""
  ELSE IF Len(parts) = 1 THEN parts[1]
  ELSE parts[1] \o sep \o Join(Tail(parts), sep)

\* strings.Fields: the maximal runs of non-space characters
RECURSIVE Fields(_)
Fields(s) ==
  IF Len(s) = 0 THEN <<>>
  ELSE IF IsSpace(Char(s, 1)) THEN Fields(SubSeq(s, 2, Len(s)))
  ELSE LET stops == {i \in 1..Len(s) : IsSpace(Char(s, i))}
           end == IF stops = {} THEN Len(s) + 1
                  ELSE CHOOSE i \in stops : \A j \in stops : i <= j
       IN <<SubSeq(s, 1, end - 1)>> \o Fields(SubSeq(s, end, Len(s)))

LowerChar(c) ==
  IF IsUpper(c) THEN Char(LowerLetters, IndexOf(UpperLetters, c)) ELSE c

\* strings.ToLower
RECURSIVE ToLower(_)
ToLower(s) ==
  IF Len(s) = 0 THEN ""
  ELSE LowerChar(Char(s, 1)) \o ToLower(SubSeq(s, 2, Len(s)))

\* strings.TrimSpace
RECURSIVE TrimSpace(_)
TrimSpace(s) ==
  IF Len(s) = 0 THEN ""
  ELSE IF IsSpace(Char(s, 1)) THEN TrimSpace(SubSeq(s, 2, Len(s)))
  ELSE IF IsSpace(Char(s, Len(s))) THEN TrimSpace(SubSeq(s, 1, Len(s) - 1))
  ELSE s

\* the characters of the class [-a-z0-9]
SlugChar(c) == c = "-" \/ IsLower(c) \/ IsDigit(c)

\* regexp.ReplaceAllString(s, "") for the pattern [^-a-z0-9]+
RECURSIVE StripNonSlug(_)
StripNonSlug(s) ==
  IF Len(s) = 0 THEN ""
  ELSE (IF SlugChar(Char(s, 1)) THEN Char(s, 1) ELSE "")
       \o StripNonSlug(SubSeq(s, 2, Len(s)))

buildTraktListName_NoStrip(imdbListName) ==
  ToLower(Join(Fields(imdbListName), "-"))

\* buildTraktListName (imdb.go 324-328)
buildTraktListName(imdbListName) ==
  LET formatted == ToLower(Join(Fields(imdbListName), "-"))
  IN StripNonSlug(formatted)

(***************************************************************************)
(* Library functions the client calls, on the inputs the model draws.      *)
(***************************************************************************)
DropTrailingCR(line) ==
  IF Len(line) > 0 /\ Char(line, Len(line)) = "\r"
  THEN SubSeq(line, 1, Len(line) - 1) ELSE line

RECURSIVE csvRecords(_)
csvRecords(lines) ==
  IF Len(lines) = 0 THEN <<>>
  ELSE LET line == DropTrailingCR(lines[1])
       IN (IF Len(line) = 0 THEN <<>> ELSE <<Split(line, ",")>>)
          \o csvRecords(Tail(lines))

\* csv.Reader.ReadAll with LazyQuotes and FieldsPerRecord = -1, on bodies
\* without quote characters: lines end at "\n" (a trailing "\r" dropped),
\* empty lines are skipped, fields are separated by ",".  No record is
\* rejected for its field count; the only error is a failed read.
csvReadAll(body) ==
  IF body.readErr THEN [records |-> <<>>, err |-> TRUE]
  ELSE [records |-> csvRecords(Split(body.text, "\n")), err |-> FALSE]

RECURSIVE DigitsValue(_)
DigitsValue(s) ==
  IF Len(s) = 0 THEN 0
  ELSE 10 * DigitsValue(SubSeq(s, 1, Len(s) - 1))
       + (IndexOf(Digits, Char(s, Len(s))) - 1)

AllDigits(s) == \A i \in 1..Len(s) : IsDigit(Char(s, i))

\* strconv.Atoi: an optional sign, then one or more decimal digits
\* (values of the model stay far below the 64-bit range)
Atoi(s) ==
  LET signed == Len(s) > 0 /\ Char(s, 1) \in {"+", "-"}
      ds == IF signed THEN SubSeq(s, 2, Len(s)) ELSE s
  IN IF Len(ds) = 0 \/ ~AllDigits(ds) THEN [ok |-> FALSE, neg |-> FALSE, abs |-> 0]
     ELSE [ok |-> TRUE, neg |-> (signed /\ Char(s, 1) = "-" /\ DigitsValue(ds) # 0),
           abs |-> DigitsValue(ds)]

IsLeap(y) == (y % 4 = 0) /\ ((y % 100 # 0) \/ (y % 400 = 0))

DaysIn(m, y) ==
  IF m = 2 THEN (IF IsLeap(y) THEN 29 ELSE 28)
  ELSE IF m \in {4, 6, 9, 11} THEN 30 ELSE 31

\* time.Parse("2006-01-02", s): four digits, "-", two digits, "-", two
\* digits, nothing after; the month and the day in range
timeParseDate(s) ==
  LET shaped == /\ Len(s) = 10
                /\ AllDigits(SubSeq(s, 1, 4))
                /\ Char(s, 5) = "-"
                /\ AllDigits(SubSeq(s, 6, 7))
                /\ Char(s, 8) = "-"
                /\ AllDigits(SubSeq(s, 9, 10))
      y == DigitsValue(SubSeq(s, 1, 4))
      m == DigitsValue(SubSeq(s, 6, 7))
      d == DigitsValue(SubSeq(s, 9, 10))
  IN IF shaped /\ m \in 1..12 /\ d \in 1..DaysIn(m, y)
     THEN [ok |-> TRUE, year |-> y, month |-> m, day |-> d]
     ELSE [ok |-> FALSE, year |-> 0, month |-> 0, day |-> 0]

\* mime.isTSpecial
TSpecials ==
  {"(", ")", "<", ">", "@", ",", ";", ":", "\\", "\"", "/", "[", "]", "?", "="}

\* mime: the characters that are not token characters
NonTokenChars == TSpecials \cup {" ", "\t", "\n", "\r", "\f"}

\* mime.consumeToken: the longest prefix of token characters, and the rest
consumeToken(v) ==
  LET stops == {i \in 1..Len(v) : Char(v, i) \in NonTokenChars}
      end == IF stops = {} THEN Len(v) + 1
             ELSE CHOOSE i \in stops : \A j \in stops : i <= j
  IN [token |-> SubSeq(v, 1, end - 1), rest |-> SubSeq(v, end, Len(v))]

RECURSIVE TrimLeft(_)
TrimLeft(s) ==
  IF Len(s) > 0 /\ IsSpace(Char(s, 1)) THEN TrimLeft(SubSeq(s, 2, Len(s))) ELSE s

\* the loop of mime.consumeValue over a quoted string v, at position i (the
\* opening quote is at 1) with the characters written so far: the closing
\* quote ends the value, a backslash before a tspecial is dropped, a bare
\* CR or LF and a missing closing quote consume nothing
RECURSIVE consumeQuoted(_, _, _)
consumeQuoted(v, i, buffer) ==
  IF i > Len(v) THEN [value |-> "", rest |-> v]
  ELSE IF Char(v, i) = "\""
  THEN [value |-> buffer, rest |-> SubSeq(v, i + 1, Len(v))]
  ELSE IF Char(v, i) = "\\" /\ i + 1 <= Len(v) /\ Char(v, i + 1) \in TSpecials
  THEN consumeQuoted(v, i + 2, buffer \o Char(v, i + 1))
  ELSE IF Char(v, i) \in {"\r", "\n"}
  THEN [value |-> "", rest |-> v]
  ELSE consumeQuoted(v, i + 1, buffer \o Char(v, i))

\* mime.consumeValue: a token, or a quoted string
consumeValue(v) ==
  IF Len(v) = 0 THEN [value |-> "", rest |-> v]
  ELSE IF Char(v, 1) # "\""
  THEN LET t == consumeToken(v) IN [value |-> t.token, rest |-> t.rest]
  ELSE consumeQuoted(v, 2, "")

\* mime.consumeMediaParam: "; key = value".  Each step is a local operator
\* that takes what the step before it consumed.
consumeMediaParam(v) ==
  LET none == [key |-> "", value |-> "", rest |-> v]
      WithValue(key, r3, val) ==
        IF val.value = "" /\ val.rest = r3 THEN none
        ELSE [key |-> key, value |-> val.value, rest |-> val.rest]
      AfterEquals(key, r3) == WithValue(key, r3, consumeValue(r3))
      WithKey(t, r2) ==
        IF t.token = "" \/ Len(r2) = 0 \/ Char(r2, 1) # "=" THEN none
        ELSE AfterEquals(ToLower(t.token), TrimLeft(SubSeq(r2, 2, Len(r2))))
      AfterSemicolon(t) == WithKey(t, TrimLeft(t.rest))
      Start(r1) ==
        IF Len(r1) = 0 \/ Char(r1, 1) # ";" THEN none
        ELSE AfterSemicolon(consumeToken(TrimLeft(SubSeq(r1, 2, Len(r1)))))
  IN Start(TrimLeft(v))

\* mime.checkMediaTypeDisposition
checkMediaTypeDisposition(s) ==
  LET t == consumeToken(s)
  IN IF t.token = "" THEN FALSE
     ELSE IF t.rest = "" THEN TRUE
     ELSE IF Char(t.rest, 1) # "/" THEN FALSE
     ELSE LET sub == consumeToken(SubSeq(t.rest, 2, Len(t.rest)))
          IN sub.token # "" /\ sub.rest = ""

EmptyParams == [k \in {} |-> ""]

ParamsPut(params, k, v) ==
  [x \in DOMAIN params \cup {k} |-> IF x = k THEN v ELSE params[x]]

\* a Go map read: the zero value for a missing key
ParamsGet(params, k) == IF k \in DOMAIN params THEN params[k] ELSE ""

RECURSIVE parseMediaParams(_, _)
parseMediaParams(v, params) ==
  LET WithParam(p) ==
        IF p.key = ""
        THEN (IF TrimSpace(p.rest) = ";"
              THEN [params |-> params, err |-> FALSE]
              ELSE [params |-> EmptyParams, err |-> TRUE])
        ELSE IF p.key \in DOMAIN params /\ params[p.key] # p.value
        THEN [params |-> EmptyParams, err |-> TRUE]
        ELSE parseMediaParams(p.rest, ParamsPut(params, p.key, p.value))
      Loop(w) ==
        IF Len(w) = 0 THEN [params |-> params, err |-> FALSE]
        ELSE WithParam(consumeMediaParam(w))
  IN Loop(TrimLeft(v))

\* mime.ParseMediaType, on values without "*" continuations
ParseMediaType(v) ==
  LET WithBase(base) ==
        IF ~checkMediaTypeDisposition(TrimSpace(ToLower(base)))
        THEN [params |-> EmptyParams, err |-> TRUE]
        ELSE parseMediaParams(SubSeq(v, Len(base) + 1, Len(v)), EmptyParams)
  IN WithBase(Split(v, ";")[1])

IsHex(c) == IsDigit(c) \/ c \in {"a", "b", "c", "d", "e", "f", "A", "B", "C", "D", "E", "F"}

\* url.Parse, as far as the urls of the model go: every "%" must start a
\* two-digit hexadecimal escape
urlParseOk(u) ==
  \A i \in 1..Len(u) :
    Char(u, i) = "%" =>
      /\ i + 2 <= Len(u)
      /\ IsHex(Char(u, i + 1))
      /\ IsHex(Char(u, i + 2))

(***************************************************************************)
(* net/http/cookiejar and the Cookie header, for one host: every url of    *)
(* the client is on www.imdb.com over https, and the cookies of the model  *)
(* carry no Domain, Secure or Expires attribute.  A jar is the sequence of *)
(* its entries in the order of their creation.                             *)
(***************************************************************************)
\* strings.LastIndex of a character: its last position in s, 0 when absent
LastIndexOf(s, c) ==
  LET hits == {i \in 1..Len(s) : Char(s, i) = c}
  IN IF hits = {} THEN 0 ELSE CHOOSE i \in hits : \A j \in hits : j <= i

HasPrefix(s, prefix) == Len(prefix) <= Len(s) /\ SubSeq(s, 1, Len(prefix)) = prefix

\* cookiejar.defaultPath: the directory of the url's path
defaultPath(path) ==
  IF Len(path) = 0 \/ Char(path, 1) # "/" THEN "/"
  ELSE IF LastIndexOf(path, "/") = 1 THEN "/"
  ELSE SubSeq(path, 1, LastIndexOf(path, "/") - 1)

\* cookiejar entry.pathMatch
pathMatch(e, requestPath) ==
  IF requestPath = e.Path THEN TRUE
  ELSE IF HasPrefix(requestPath, e.Path)
  THEN Char(e.Path, Len(e.Path)) = "/" \/ Char(requestPath, Len(e.Path) + 1) = "/"
  ELSE FALSE

\* an http.Cookie: Path "" when the attribute is absent, MaxAge 0 when absent
Cookie(name, value, path, maxAge) ==
  [Name |-> name, Value |-> value, Path |-> path, MaxAge |-> maxAge]

\* cookiejar Jar.newEntry: the entry of a cookie, and whether the cookie
\* removes the entry (a negative MaxAge)
newEntry(c, defPath) ==
  [entry |-> [Name |-> c.Name, Value |-> c.Value,
              Path |-> IF c.Path = "" \/ Char(c.Path, 1) # "/" THEN defPath ELSE c.Path],
   remove |-> c.MaxAge < 0]

\* cookiejar Jar.SetCookies for a url of path urlPath: an entry is known by
\* its name and path; a stored entry keeps its place when it is updated
RECURSIVE jarSetCookies(_, _, _)
jarSetCookies(entries, urlPath, cookies) ==
  IF Len(cookies) = 0 THEN entries
  ELSE LET n == newEntry(cookies[1], defaultPath(urlPath))
           Same(e) == e.Name = n.entry.Name /\ e.Path = n.entry.Path
           Other(e) == ~Same(e)
           Stored(es) ==
             IF n.remove THEN SelectSeq(es, Other)
             ELSE IF \E i \in 1..Len(es) : Same(es[i])
             THEN [i \in 1..Len(es) |-> IF Same(es[i]) THEN n.entry ELSE es[i]]
             ELSE Append(es, n.entry)
       IN jarSetCookies(Stored(entries), urlPath, Tail(cookies))

\* the order of Jar.Cookies: longer paths first, then older entries first
RECURSIVE byPathLength(_)
byPathLength(entries) ==
  IF Len(entries) = 0 THEN <<>>
  ELSE LET longest == CHOOSE n \in {Len(entries[i].Path) : i \in 1..Len(entries)} :
                        \A i \in 1..Len(entries) : Len(entries[i].Path) <= n
           Longest(e) == Len(e.Path) = longest
           Shorter(e) == Len(e.Path) # longest
       IN SelectSeq(entries, Longest) \o byPathLength(SelectSeq(entries, Shorter))

\* cookiejar Jar.Cookies for a url of path urlPath
jarCookies(entries, urlPath) ==
  LET Sent(e) == pathMatch(e, IF urlPath = "" THEN "/" ELSE urlPath)
  IN byPathLength(SelectSeq(entries, Sent))

\* http.validCookieValueByte: printable ascii but the double quote, the
\* semicolon and the backslash (and here the backquote, which a TLA+ string
\* cannot hold and no value of the model does)
ValidCookieValueChars ==
  " !#$%&'()*+,-./:<=>?@[]^_{|}~" \o Digits \o LowerLetters \o UpperLetters

\* http.sanitizeCookieValue: invalid bytes are dropped, and a value with a
\* space or a comma is sent in double quotes
RECURSIVE dropInvalid(_)
dropInvalid(v) ==
  IF Len(v) = 0 THEN ""
  ELSE (IF IndexOf(ValidCookieValueChars, Char(v, 1)) # 0 THEN Char(v, 1) ELSE "")
       \o dropInvalid(SubSeq(v, 2, Len(v)))

sanitizeCookieValue(v) ==
  LET Quoted(kept) ==
        IF Len(kept) = 0 THEN kept
        ELSE IF IndexOf(kept, " ") # 0 \/ IndexOf(kept, ",") # 0
        THEN "\"" \o kept \o "\""
        ELSE kept
  IN Quoted(dropInvalid(v))

\* the Cookie header Request.AddCookie builds of the jar's cookies, "" when
\* there is none (the names of the model need no sanitizing)
cookieHeader(cookies) ==
  Join([i \in 1..Len(cookies) |->
          cookies[i].Name \o "=" \o sanitizeCookieValue(cookies[i].Value)], "; ")

(***************************************************************************)
(* Values: Go's nil, errors, responses, lists and items.                   *)
(***************************************************************************)
Nil == [kind |-> "nil"]
IsNil(x) == x.kind = "nil"

\* fmt.Errorf(msg + ": %w", cause); cause is Nil when the format wraps none
Errorf(msg, cause) == [kind |-> "error", msg |-> msg, cause |-> cause]

\* an *ApiError (the type is declared in another file of package client)
ApiError(method, url, status, details) ==
  [kind |-> "ApiError", clientName |-> clientNameImdb, httpMethod |-> method,
   url |-> url, StatusCode |-> status, details |-> details]

detailsAuthorization == "imdb authorization failure - update the imdb cookie values"
detailsUnexpectedStatus(status) == "unexpected status code " \o ToString(status)
detailsListNotFound(listId) == "list with id " \o listId \o " could not be found"

\* what an operation hands back: a (value, error) pair or a panic, the
\* requests it sent with the answers they got, and the config and the jar
\* it leaves
Returned(val, err, exch, cfg, entries) ==
  [val |-> val, err |-> err, panic |-> FALSE, served |-> exch, config |-> cfg,
   jar |-> entries]
Panicked(exch, cfg, entries) ==
  [val |-> Nil, err |-> Nil, panic |-> TRUE, served |-> exch, config |-> cfg,
   jar |-> entries]

\* entities.RequestFields of a GET of path
RequestFields(path) ==
  [Method |-> MethodGet, Endpoint |-> imdbPathBase, Path |-> path,
   Url |-> imdbPathBase \o path, Body |-> "NoBody"]

(***************************************************************************)
(* The client.                                                             *)
(***************************************************************************)
\* setupCookieJar (imdb.go 64-84): the jar holds the two cookies for the
\* base url, which always parses
setupCookieJar(cfg) ==
  IF ~urlParseOk(imdbPathBase)
  THEN [jar |-> <<>>, err |-> Errorf("failure parsing url", Nil)]
  ELSE [jar |-> jarSetCookies(<<>>, "",
                  <<Cookie(imdbCookieNameAtMain, cfg.CookieAtMain, "", 0),
                    Cookie(imdbCookieNameUbidMain, cfg.CookieUbidMain, "", 0)>>),
        err |-> Nil]

\* the request client.Do sends: the cookies the jar holds for its url go
\* with it
HttpRequest(c, reqFields) ==
  [Method |-> reqFields.Method, Url |-> reqFields.Url,
   Cookie |-> cookieHeader(jarCookies(c.jar, reqFields.Path))]

\* the jar after client.Do: the cookies of an answer are stored, those of
\* an error answer too; a request that got no answer leaves the jar alone
clientDoJar(c, reqFields, answer) ==
  IF answer.sent THEN jarSetCookies(c.jar, reqFields.Path, answer.SetCookies)
  ELSE c.jar

\* the exchanges of a doRequest call: none when the request could not be built
Exchange(c, reqFields, answer) ==
  IF urlParseOk(reqFields.Url)
  THEN <<[request |-> HttpRequest(c, reqFields), answer |-> answer]>>
  ELSE <<>>

\* the *http.Response of an answer
HttpResponse(c, reqFields, answer) ==
  [kind |-> "response", StatusCode |-> answer.StatusCode,
   ContentDisposition |-> answer.ContentDisposition, Body |-> answer.Body,
   Request |-> HttpRequest(c, reqFields)]

doRequest_Pass403(c, reqFields, answer) ==
  IF ~urlParseOk(reqFields.Url)
  THEN [response |-> Nil, err |-> Errorf("failure creating http request", Nil),
        jar |-> c.jar]
  ELSE IF ~answer.sent
  THEN [response |-> Nil, err |-> Errorf("failure sending http request", Nil),
        jar |-> clientDoJar(c, reqFields, answer)]
  ELSE IF answer.StatusCode \in {StatusOK, StatusForbidden, StatusNotFound}
  THEN [response |-> HttpResponse(c, reqFields, answer), err |-> Nil,
        jar |-> clientDoJar(c, reqFields, answer)]
  ELSE [response |-> Nil, jar |-> clientDoJar(c, reqFields, answer),
        err |-> ApiError(reqFields.Method, reqFields.Url, answer.StatusCode,
                         detailsUnexpectedStatus(answer.StatusCode))]

doRequest_403Unexpected(c, reqFields, answer) ==
  IF ~urlParseOk(reqFields.Url)
  THEN [response |-> Nil, err |-> Errorf("failure creating http request", Nil),
        jar |-> c.jar]
  ELSE IF ~answer.sent
  THEN [response |-> Nil, err |-> Errorf("failure sending http request", Nil),
        jar |-> clientDoJar(c, reqFields, answer)]
  ELSE IF answer.StatusCode \in {StatusOK, StatusNotFound}
  THEN [response |-> HttpResponse(c, reqFields, answer), err |-> Nil,
        jar |-> clientDoJar(c, reqFields, answer)]
  ELSE [response |-> Nil, jar |-> clientDoJar(c, reqFields, answer),
        err |-> ApiError(reqFields.Method, reqFields.Url, answer.StatusCode,
                         detailsUnexpectedStatus(answer.StatusCode))]

\* ImdbClient.doRequest (imdb.go 98-130)
doRequest(c, reqFields, answer) ==
  IF ~urlParseOk(reqFields.Url)
  THEN [response |-> Nil, err |-> Errorf("failure creating http request", Nil),
        jar |-> c.jar]
  ELSE IF ~answer.sent
  THEN [response |-> Nil, err |-> Errorf("failure sending http request", Nil),
        jar |-> clientDoJar(c, reqFields, answer)]
  ELSE IF answer.StatusCode = StatusOK
  THEN [response |-> HttpResponse(c, reqFields, answer), err |-> Nil,
        jar |-> clientDoJar(c, reqFields, answer)]
  ELSE IF answer.StatusCode = StatusForbidden
  THEN [response |-> Nil, jar |-> clientDoJar(c, reqFields, answer),
        err |-> ApiError(reqFields.Method, reqFields.Url, answer.StatusCode,
                         detailsAuthorization)]
  ELSE IF answer.StatusCode = StatusNotFound
  THEN [response |-> HttpResponse(c, reqFields, answer), err |-> Nil,
        jar |-> clientDoJar(c, reqFields, answer)]
  ELSE [response |-> Nil, jar |-> clientDoJar(c, reqFields, answer),
        err |-> ApiError(reqFields.Method, reqFields.Url, answer.StatusCode,
                         detailsUnexpectedStatus(answer.StatusCode))]

\* an entities.ImdbItem of a list export: no rating, no rating date
ListItem(record) ==
  [Id |-> record[2], TitleType |-> record[8], Rating |-> Nil, RatingDate |-> Nil]

\* the loop of readImdbListResponse (imdb.go 268-276): record[1] and
\* record[7] of every record after the first; an index out of range panics
RECURSIVE listItemsOf(_, _)
listItemsOf(records, i) ==
  IF i > Len(records) THEN [items |-> <<>>, panic |-> FALSE]
  ELSE IF i = 1 THEN listItemsOf(records, i + 1)
  ELSE IF Len(records[i]) < 8 THEN [items |-> <<>>, panic |-> TRUE]
  ELSE LET rest == listItemsOf(records, i + 1)
       IN [items |-> <<ListItem(records[i])>> \o rest.items, panic |-> rest.panic]

\* readImdbListResponse (imdb.go 260-292)
readImdbListResponse(res, listId) ==
  LET contentDispositionHeader == res.ContentDisposition
      Built(listItems, listName) ==
        [val |-> [kind |-> "ImdbList", ListName |-> listName, ListId |-> listId,
                  ListItems |-> listItems,
                  TraktListSlug |-> buildTraktListName(listName),
                  IsWatchlist |-> FALSE],
         err |-> Nil, panic |-> FALSE]
      WithParams(listItems, parsed) ==
        IF parsed.err \/ Cardinality(DOMAIN parsed.params) = 0
        THEN [val |-> Nil, panic |-> FALSE,
              err |-> Errorf("failure parsing media type from imdb header", Nil)]
        ELSE Built(listItems, Split(ParamsGet(parsed.params, "filename"), ".")[1])
      WithItems(items) ==
        IF items.panic THEN [val |-> Nil, err |-> Nil, panic |-> TRUE]
        ELSE IF contentDispositionHeader = ""
        THEN [val |-> Nil, panic |-> FALSE,
              err |-> Errorf("failure reading header from imdb response", Nil)]
        ELSE WithParams(items.items, ParseMediaType(contentDispositionHeader))
      WithCsv(csvData) ==
        IF csvData.err
        THEN [val |-> Nil, panic |-> FALSE,
              err |-> Errorf("failure reading from imdb response", Nil)]
        ELSE WithItems(listItemsOf(csvData.records, 1))
  IN WithCsv(csvReadAll(res.Body))

ListGet_Decode404(c, listId, answer) ==
  LET requestFields == RequestFields(imdbPathListExport(listId))
      exch == Exchange(c, requestFields, answer)
      Decoded(r, d) ==
        IF d.panic THEN Panicked(exch, c.config, r.jar)
        ELSE IF r.response.StatusCode = StatusNotFound
        THEN Returned(Nil,
                      ApiError(r.response.Request.Method, r.response.Request.Url,
                               r.response.StatusCode, detailsListNotFound(listId)),
                      exch, c.config, r.jar)
        ELSE Returned(d.val, d.err, exch, c.config, r.jar)
      Requested(r) ==
        IF ~IsNil(r.err) THEN Returned(Nil, r.err, exch, c.config, r.jar)
        ELSE Decoded(r, readImdbListResponse(r.response, listId))
  IN Requested(doRequest(c, requestFields, answer))

\* ImdbClient.ListGet (imdb.go 132-156)
ListGet(c, listId, answer) ==
  LET requestFields == RequestFields(imdbPathListExport(listId))
      exch == Exchange(c, requestFields, answer)
      Decoded(r, d) ==
        IF d.panic THEN Panicked(exch, c.config, r.jar)
        ELSE Returned(d.val, d.err, exch, c.config, r.jar)
      Requested(r) ==
        IF ~IsNil(r.err) THEN Returned(Nil, r.err, exch, c.config, r.jar)
        ELSE IF r.response.StatusCode = StatusNotFound
        THEN Returned(Nil,
                      ApiError(r.response.Request.Method, r.response.Request.Url,
                               r.response.StatusCode, detailsListNotFound(listId)),
                      exch, c.config, r.jar)
        ELSE Decoded(r, readImdbListResponse(r.response, listId))
  IN Requested(doRequest(c, requestFields, answer))

\* ImdbClient.WatchlistGet (imdb.go 158-165)
WatchlistGet(c, answer) ==
  LET Got(r) ==
        IF r.panic \/ ~IsNil(r.err) THEN r
        ELSE [r EXCEPT !.val = [r.val EXCEPT !.IsWatchlist = TRUE]]
  IN Got(ListGet(c, c.config.WatchlistId, answer))

\* goquery: whether an element of the parsed document matches a selector
\* (the three selectors the client uses)
Matches(e, selector) ==
  CASE selector = ".user-list" -> "user-list" \in e.classes
    [] selector = ".user-profile.userId" -> {"user-profile", "userId"} \subseteq e.classes
    [] selector = "meta[property='pageId']" ->
         /\ e.tag = "meta"
         /\ "property" \in DOMAIN e.attrs
         /\ e.attrs["property"] = "pageId"
    [] OTHER -> FALSE

\* goquery Document.Find: the matching elements, in document order
RECURSIVE docFind(_, _)
docFind(page, selector) ==
  IF Len(page) = 0 THEN <<>>
  ELSE (IF Matches(page[1], selector) THEN <<page[1]>> ELSE <<>>)
       \o docFind(Tail(page), selector)

\* the callback of ListsGetAll (imdb.go 186-199) over the selection, one
\* element after the other; acc holds the lists appended, the exchanges
\* and the jar as the requests sent so far left it
RECURSIVE eachUserList(_, _, _, _)
eachUserList(c, selection, exports, acc) ==
  LET Got(r) ==
        IF r.panic
        THEN [lists |-> acc.lists, served |-> acc.served \o r.served, jar |-> r.jar,
              panic |-> TRUE]
        ELSE IF ~IsNil(r.err)
        THEN eachUserList([c EXCEPT !.jar = r.jar], Tail(selection), exports,
                          [lists |-> acc.lists, served |-> acc.served \o r.served,
                           jar |-> r.jar, panic |-> FALSE])
        ELSE eachUserList([c EXCEPT !.jar = r.jar], Tail(selection), exports,
               [lists |-> Append(acc.lists,
                            [r.val EXCEPT !.TraktListSlug =
                                            buildTraktListName(r.val.ListName)]),
                served |-> acc.served \o r.served, jar |-> r.jar, panic |-> FALSE])
      Callback(el) ==
        IF "id" \notin DOMAIN el.attrs
        THEN eachUserList(c, Tail(selection), exports, acc)
        ELSE Got(ListGet(c, el.attrs["id"], exports[el.attrs["id"]]))
  IN IF Len(selection) = 0 THEN acc ELSE Callback(selection[1])

\* ImdbClient.ListsGetAll (imdb.go 167-201)
ListsGetAll(c, answer, exports) ==
  LET requestFields == RequestFields(imdbPathLists(c.config.UserId))
      exch == Exchange(c, requestFields, answer)
      Scanned(scan) ==
        IF scan.panic THEN Panicked(scan.served, c.config, scan.jar)
        ELSE Returned([kind |-> "lists", lists |-> scan.lists], Nil,
                      scan.served, c.config, scan.jar)
      Requested(r) ==
        IF ~IsNil(r.err) THEN Returned(Nil, r.err, exch, c.config, r.jar)
        ELSE IF r.response.Body.readErr
        THEN Returned(Nil,
                      Errorf("failure creating goquery document from imdb response", Nil),
                      exch, c.config, r.jar)
        ELSE Scanned(eachUserList([c EXCEPT !.jar = r.jar],
                                  docFind(r.response.Body.page, ".user-list"), exports,
                                  [lists |-> <<>>, served |-> exch, jar |-> r.jar,
                                   panic |-> FALSE]))
  IN Requested(doRequest(c, requestFields, answer))

\* scrapeSelectionAttribute is declared in another file of package client:
\* the attribute of the first element the selector finds, or an error when
\* the body cannot be read or the element or the attribute is missing
scrapeSelectionAttribute(body, clientName, selector, attribute) ==
  LET selection == IF body.readErr THEN <<>> ELSE docFind(body.page, selector)
  IN IF body.readErr
     THEN [value |-> "", err |-> Errorf("failure creating goquery document", Nil)]
     ELSE IF Len(selection) = 0 \/ attribute \notin DOMAIN selection[1].attrs
     THEN [value |-> "",
           err |-> [kind |-> "ScrapeError", clientName |-> clientName,
                    selector |-> selector, attribute |-> attribute]]
     ELSE [value |-> selection[1].attrs[attribute], err |-> Nil]

UserIdScrape_StoreOnFailure(c, answer) ==
  LET requestFields == RequestFields(imdbPathProfile)
      exch == Exchange(c, requestFields, answer)
      Scraped(r, userId) ==
        Returned(Nil,
                 IF IsNil(userId.err) THEN Nil
                 ELSE Errorf("imdb user id not found", userId.err),
                 exch, [c.config EXCEPT !.UserId = userId.value], r.jar)
      Requested(r) ==
        IF ~IsNil(r.err) THEN Returned(Nil, r.err, exch, c.config, r.jar)
        ELSE Scraped(r, scrapeSelectionAttribute(r.response.Body, clientNameImdb,
                                                 ".user-profile.userId", "data-userid"))
  IN Requested(doRequest(c, requestFields, answer))

\* ImdbClient.UserIdScrape (imdb.go 203-221)
UserIdScrape(c, answer) ==
  LET requestFields == RequestFields(imdbPathProfile)
      exch == Exchange(c, requestFields, answer)
      Scraped(r, userId) ==
        IF ~IsNil(userId.err)
        THEN Returned(Nil, Errorf("imdb user id not found", userId.err), exch,
                      c.config, r.jar)
        ELSE Returned(Nil, Nil, exch, [c.config EXCEPT !.UserId = userId.value], r.jar)
      Requested(r) ==
        IF ~IsNil(r.err) THEN Returned(Nil, r.err, exch, c.config, r.jar)
        ELSE Scraped(r, scrapeSelectionAttribute(r.response.Body, clientNameImdb,
                                                 ".user-profile.userId", "data-userid"))
  IN Requested(doRequest(c, requestFields, answer))

\* ImdbClient.WatchlistIdScrape (imdb.go 223-241)
WatchlistIdScrape(c, answer) ==
  LET requestFields == RequestFields(imdbPathWatchlist)
      exch == Exchange(c, requestFields, answer)
      Scraped(r, watchlistId) ==
        IF ~IsNil(watchlistId.err)
        THEN Returned(Nil, Errorf("imdb watchlist id not found", watchlistId.err),
                      exch, c.config, r.jar)
        ELSE Returned(Nil, Nil, exch,
                      [c.config EXCEPT !.WatchlistId = watchlistId.value], r.jar)
      Requested(r) ==
        IF ~IsNil(r.err) THEN Returned(Nil, r.err, exch, c.config, r.jar)
        ELSE Scraped(r, scrapeSelectionAttribute(r.response.Body, clientNameImdb,
                                                 "meta[property='pageId']", "content"))
  IN Requested(doRequest(c, requestFields, answer))

\* the loop of readImdbRatingsResponse (imdb.go 302-320), field after field
\* in the order the code reads them; an index out of range panics
RECURSIVE ratingsOf(_, _)
ratingsOf(records, i) ==
  IF i > Len(records) THEN [items |-> <<>>, err |-> Nil, panic |-> FALSE]
  ELSE IF i = 1 THEN ratingsOf(records, i + 1)
  ELSE LET record == records[i]
           rating == Atoi(record[2])
           ratingDate == timeParseDate(record[3])
           rest == ratingsOf(records, i + 1)
       IN IF Len(record) < 2 THEN [items |-> <<>>, err |-> Nil, panic |-> TRUE]
          ELSE IF ~rating.ok
          THEN [items |-> <<>>, panic |-> FALSE,
                err |-> Errorf("failure parsing imdb rating value to integer", Nil)]
          ELSE IF Len(record) < 3 THEN [items |-> <<>>, err |-> Nil, panic |-> TRUE]
          ELSE IF ~ratingDate.ok
          THEN [items |-> <<>>, panic |-> FALSE,
                err |-> Errorf("failure parsing imdb rating date", Nil)]
          ELSE IF Len(record) < 6 THEN [items |-> <<>>, err |-> Nil, panic |-> TRUE]
          ELSE IF rest.panic \/ ~IsNil(rest.err) THEN rest
          ELSE [items |-> <<[Id |-> record[1], TitleType |-> record[6],
                             Rating |-> [kind |-> "int", neg |-> rating.neg,
                                         abs |-> rating.abs],
                             RatingDate |-> [kind |-> "date", year |-> ratingDate.year,
                                             month |-> ratingDate.month,
                                             day |-> ratingDate.day]]>>
                           \o rest.items,
                err |-> Nil, panic |-> FALSE]

\* readImdbRatingsResponse (imdb.go 294-322)
readImdbRatingsResponse(res) ==
  LET WithRatings(ratings) ==
        IF ratings.panic THEN [val |-> Nil, err |-> Nil, panic |-> TRUE]
        ELSE IF ~IsNil(ratings.err)
        THEN [val |-> Nil, err |-> ratings.err, panic |-> FALSE]
        ELSE [val |-> [kind |-> "items", items |-> ratings.items], err |-> Nil,
              panic |-> FALSE]
      WithCsv(csvData) ==
        IF csvData.err
        THEN [val |-> Nil, panic |-> FALSE,
              err |-> Errorf("failure reading from imdb response", Nil)]
        ELSE WithRatings(ratingsOf(csvData.records, 1))
  IN WithCsv(csvReadAll(res.Body))

\* ImdbClient.RatingsGet (imdb.go 243-258)
RatingsGet(c, answer) ==
  LET requestFields == RequestFields(imdbPathRatingsExport(c.config.UserId))
      exch == Exchange(c, requestFields, answer)
      Decoded(r, d) ==
        IF d.panic THEN Panicked(exch, c.config, r.jar)
        ELSE Returned(d.val, d.err, exch, c.config, r.jar)
      Requested(r) ==
        IF ~IsNil(r.err) THEN Returned(Nil, r.err, exch, c.config, r.jar)
        ELSE Decoded(r, readImdbRatingsResponse(r.response))
  IN Requested(doRequest(c, requestFields, answer))

hydrate_AlwaysScrapeUser(c, profileAnswer, watchlistAnswer) ==
  LET Second(u, w) ==
        IF ~IsNil(w.err)
        THEN Returned(Nil, Errorf("failure scraping imdb watchlist id", w.err),
                      u.served \o w.served, w.config, w.jar)
        ELSE Returned(Nil, Nil, u.served \o w.served, w.config, w.jar)
      First(u) ==
        IF ~IsNil(u.err)
        THEN Returned(Nil, Errorf("failure scraping imdb user id", u.err),
                      u.served, u.config, u.jar)
        ELSE Second(u, WatchlistIdScrape([config |-> u.config, jar |-> u.jar],
                                         watchlistAnswer))
  IN First(UserIdScrape(c, profileAnswer))

\* ImdbClient.hydrate (imdb.go 86-96); u is what UserIdScrape returned, or
\* a return without error and without requests when it was not called
hydrate(c, profileAnswer, watchlistAnswer) ==
  LET Second(u, w) ==
        IF ~IsNil(w.err)
        THEN Returned(Nil, Errorf("failure scraping imdb watchlist id", w.err),
                      u.served \o w.served, w.config, w.jar)
        ELSE Returned(Nil, Nil, u.served \o w.served, w.config, w.jar)
      First(u) ==
        IF ~IsNil(u.err)
        THEN Returned(Nil, Errorf("failure scraping imdb user id", u.err),
                      u.served, u.config, u.jar)
        ELSE Second(u, WatchlistIdScrape([config |-> u.config, jar |-> u.jar],
                                         watchlistAnswer))
  IN IF c.config.UserId = "" \/ c.config.UserId = "scrape"
     THEN First(UserIdScrape(c, profileAnswer))
     ELSE First(Returned(Nil, Nil, <<>>, c.config, c.jar))

\* NewImdbClient (imdb.go 46-62)
NewImdbClient(cfg, profileAnswer, watchlistAnswer) ==
  LET Hydrated(h) ==
        IF ~IsNil(h.err)
        THEN Returned(Nil, Errorf("failure hydrating imdb client", h.err), h.served,
                      cfg, h.jar)
        ELSE Returned([kind |-> "client", config |-> h.config, jar |-> h.jar], Nil,
                      h.served, h.config, h.jar)
      WithJar(j) ==
        IF ~IsNil(j.err) THEN Returned(Nil, j.err, <<>>, cfg, j.jar)
        ELSE Hydrated(hydrate([config |-> cfg, jar |-> j.jar],
                              profileAnswer, watchlistAnswer))
  IN WithJar(setupCookieJar(cfg))


(***************************************************************************)
(* The server's answers: the inputs of the operations.                     *)
(***************************************************************************)
EmptyBody == [text |-> "", page |-> <<>>, readErr |-> FALSE]

\* the server answered with a status, a Content-Disposition value ("" when
\* the header is absent), a body and no Set-Cookie header
Answer(status, disposition, body) ==
  [sent |-> TRUE, StatusCode |-> status, ContentDisposition |-> disposition,
   Body |-> body, SetCookies |-> <<>>]

\* client.Do failed: no answer
NoAnswer ==
  [sent |-> FALSE, StatusCode |-> 0, ContentDisposition |-> "", Body |-> EmptyBody,
   SetCookies |-> <<>>]

\* the cookies of the Set-Cookie headers of an answer (Response.Cookies): a
\* new value of at-main for the whole site, a cookie for the paths under
\* /list, and one that expires ubid-main for the directory of the url the
\* answer is to
ServerCookies ==
  <<Cookie(imdbCookieNameAtMain, "at2", "/", 0),
    Cookie("session-id", "s1", "/list", 0),
    Cookie(imdbCookieNameUbidMain, "", "", -1)>>

\* the answers of a set, and some of them with cookies
WithCookies(answers, some) ==
  answers \cup {[a EXCEPT !.SetCookies = ServerCookies] : a \in answers \cap some}

OtherStatuses == {201, 500}

\* the answers doRequest turns into an error, whatever they carry
ErrorAnswers ==
  {NoAnswer} \cup {Answer(st, "", EmptyBody) : st \in {StatusForbidden} \cup OtherStatuses}

RECURSIVE SeqsUpTo(_, _)
SeqsUpTo(S, n) ==
  IF n = 0 THEN {<<>>}
  ELSE LET shorter == SeqsUpTo(S, n - 1)
       IN shorter \cup {Append(q, x) : q \in {r \in shorter : Len(r) = n - 1}, x \in S}

CsvBody(text) == [text |-> text, page |-> <<>>, readErr |-> FALSE]
HtmlBody(page) == [text |-> "", page |-> page, readErr |-> FALSE]
BrokenBody == [text |-> "", page |-> <<>>, readErr |-> TRUE]

CsvText(header, rows) ==
  header \o "\n" \o Join(rows, "\n") \o (IF Len(rows) = 0 THEN "" ELSE "\n")

\* rows of a list export: two full rows, one with a field more, one with
\* seven fields, one with a single field
ListRows ==
  {"1,tt1,c,m,d,T,u,movie", "2,tt2,c,m,d,T,u,tvSeries,x", "3,tt3,c,m,d,T,u", "x"}

ListBodies ==
  {CsvBody(""), BrokenBody, CsvBody("pos,const\r\n\r\n1,tt1,c,m,d,T,u,movie\r\n")}
  \cup {CsvBody(CsvText("pos,const,created,mod,desc,title,url,type", rows)) :
          rows \in SeqsUpTo(ListRows, MaxRows)}

Dispositions ==
  {"", "attachment; filename=\"My List.csv\"", "attachment; filename=a.b.csv",
   "attachment", "attachment; name=\"x\"", "attachment; filename",
   "attachment; filename=\"a\nb.csv\"", "attachment; filename=\"a\\\"b.csv\""}

NotFoundExportAnswers ==
  {Answer(StatusNotFound, d, b) :
     d \in {"", "attachment; filename=\"My List.csv\""},
     b \in {EmptyBody, BrokenBody, CsvBody("h\nx\n"),
            CsvBody("h\n1,tt1,c,m,d,T,u,movie\n")}}

ExportAnswers ==
  WithCookies(ErrorAnswers \cup NotFoundExportAnswers
              \cup {Answer(StatusOK, d, b) : d \in Dispositions, b \in ListBodies},
              {Answer(StatusForbidden, "", EmptyBody),
               Answer(StatusOK, "attachment; filename=a.b.csv", CsvBody(""))})

\* the list exports the lists-overview scan is answered with
FanoutAnswers ==
  {NoAnswer,
   Answer(StatusForbidden, "", EmptyBody),
   Answer(StatusNotFound, "", EmptyBody),
   Answer(StatusOK, "attachment; filename=\"My List.csv\"",
          CsvBody("h\n1,tt1,c,m,d,T,u,movie\n")),
   [Answer(StatusOK, "attachment; filename=B-2.csv", CsvBody("h\n"))
      EXCEPT !.SetCookies = ServerCookies],
   Answer(StatusOK, "", CsvBody("h\n1,tt1,c,m,d,T,u,movie\n")),
   Answer(StatusOK, "attachment; filename=a.csv", CsvBody("h\n3,tt3\n"))}

ScannedIds == {"ls1", "ls2"}
\* the ids ListGet is called with: one whose url cannot be parsed among them
ListIdArgs == {"ls2", "ls%zz"}

Element(tag, classes, attrs) == [tag |-> tag, classes |-> classes, attrs |-> attrs]
NoAttrs == [k \in {} |-> ""]
Attr1(k, v) == [x \in {k} |-> v]

OverviewElements ==
  {Element("li", {"user-list"}, Attr1("id", id)) : id \in ScannedIds}
  \cup {Element("li", {"user-list"}, NoAttrs), Element("div", {"other"}, Attr1("id", "ls1"))}

UserElement(id) == Element("div", {"user-profile", "userId"}, Attr1("data-userid", id))

PageIdElement(id) ==
  Element("meta", {}, [x \in {"property", "content"} |->
                         IF x = "property" THEN "pageId" ELSE id])

HtmlAnswers(pages) ==
  WithCookies(ErrorAnswers \cup {Answer(StatusOK, "", BrokenBody)}
              \cup {Answer(StatusOK, "", HtmlBody(page)) : page \in pages}
              \cup {Answer(StatusNotFound, "", HtmlBody(page)) :
                      page \in {q \in pages : Len(q) <= 1}},
              {Answer(StatusForbidden, "", EmptyBody)}
              \cup {Answer(StatusOK, "", HtmlBody(page)) :
                      page \in {<<UserElement("ur1")>>, <<PageIdElement("ls1")>>,
                                <<Element("li", {"user-list"}, Attr1("id", "ls1"))>>}})

OverviewAnswers == HtmlAnswers(SeqsUpTo(OverviewElements, MaxLists))

ProfilePages ==
  {<<>>, <<UserElement("ur1")>>, <<UserElement("ur2")>>,
   <<Element("div", {"user-profile", "userId"}, NoAttrs)>>,
   <<Element("div", {"user-profile"}, Attr1("data-userid", "ur1")), UserElement("ur2")>>}

ProfileAnswers == HtmlAnswers(ProfilePages)

WatchlistPages ==
  {<<>>, <<PageIdElement("ls1")>>, <<PageIdElement("ls2")>>,
   <<Element("meta", {}, Attr1("property", "pageId"))>>,
   <<Element("meta", {}, Attr1("property", "title")), PageIdElement("ls1")>>}

WatchlistAnswers == HtmlAnswers(WatchlistPages)

\* rows of a ratings export: two good rows, a bad rating, a bad date (2023
\* is no leap year), a bad rating in a two-field row, a row without the
\* title-type column, a row of a single field
RatingRows ==
  {"tt1,9,2022-05-01,T,u,movie", "tt2,10,2024-02-29,T,u,tvSeries",
   "tt3,x,2022-05-01,T,u,movie", "tt4,7,2023-02-29,T,u,movie",
   "tt5,", "tt6,8,2022-05-01", "tt7"}

RatingsAnswers ==
  WithCookies(
    ErrorAnswers
    \cup {Answer(StatusOK, "", BrokenBody), Answer(StatusOK, "", CsvBody("")),
          Answer(StatusNotFound, "", CsvBody("not found\n"))}
    \cup {Answer(StatusOK, "", CsvBody(CsvText("const,rating,date,title,url,type", rows))) :
            rows \in SeqsUpTo(RatingRows, MaxRows)},
    {Answer(StatusForbidden, "", EmptyBody), Answer(StatusOK, "", CsvBody(""))})

\* the paths of the requests the client sends
RequestPaths ==
  {imdbPathProfile, imdbPathWatchlist, imdbPathLists("ur1"), imdbPathRatingsExport("ur1")}
  \cup {imdbPathListExport(id) : id \in ListIdArgs}

TransportAnswers ==
  WithCookies(
    ErrorAnswers \cup NotFoundExportAnswers
    \cup {Answer(st, "attachment; filename=a.csv", CsvBody("h\n")) :
            st \in {StatusOK, StatusForbidden, StatusNotFound} \cup OtherStatuses}
    \cup {Answer(StatusOK, "", HtmlBody(page)) : page \in ProfilePages},
    {Answer(st, "", EmptyBody) : st \in {StatusForbidden, 500}})

NameChars == {"A", "b", "1", "-", " ", "\t", "!"}

RECURSIVE StringsUpTo(_)
StringsUpTo(n) ==
  IF n = 0 THEN {""}
  ELSE LET shorter == StringsUpTo(n - 1)
       IN shorter \cup {t \o ch : t \in {r \in shorter : Len(r) = n - 1}, ch \in NameChars}

SuppliedConfigs ==
  {[CookieAtMain |-> "at1", CookieUbidMain |-> "ub 1;", UserId |-> u, WatchlistId |-> w] :
     u \in {"", "scrape", "ur1"}, w \in {"", "ls9"}}

(***************************************************************************)
(* The state machine.                                                      *)
(*   pc       "new": no client yet; "idle": the client awaits a call;      *)
(*            "returned": a call has returned; "failed": the constructor   *)
(*            returned an error; "crashed": a call panicked                *)
(*   config   the supplied config, then the client's                       *)
(*   jar      the entries of the client's cookie jar, oldest first         *)
(*   call     the operation called last, with its argument and the config  *)
(*            it found                                                     *)
(*   served   the requests the call sent, each with the server's answer    *)
(*   result   what the call returned                                       *)
(***************************************************************************)
NoCall == [op |-> "none", listId |-> "", name |-> "", cfg |-> Nil]
NoResult == [val |-> Nil, err |-> Nil, panic |-> FALSE]

Init ==
  /\ config \in SuppliedConfigs
  /\ jar = <<>>
  /\ pc = "new"
  /\ call = NoCall
  /\ served = <<>>
  /\ result = NoResult

\* the client in its current state
Client == [config |-> config, jar |-> jar]

\* a call of a method ends: the client's config and jar as the method left
\* them
Finish(op, listId, r) ==
  /\ call' = [op |-> op, listId |-> listId, name |-> "", cfg |-> config]
  /\ served' = r.served
  /\ result' = [val |-> r.val, err |-> r.err, panic |-> r.panic]
  /\ config' = r.config
  /\ jar' = r.jar
  /\ pc' = IF r.panic THEN "crashed" ELSE "returned"

CallNewImdbClient ==
  /\ pc = "new"
  /\ \E pa \in ProfileAnswers, wa \in WatchlistAnswers :
       \E r \in {NewImdbClient(config, pa, wa)} :
          /\ call' = [op |-> "NewImdbClient", listId |-> "", name |-> "", cfg |-> config]
          /\ served' = r.served
          /\ result' = [val |-> r.val, err |-> r.err, panic |-> r.panic]
          /\ config' = r.config
          /\ jar' = IF IsNil(r.err) THEN r.val.jar ELSE jar
          /\ pc' = IF IsNil(r.err) THEN "returned" ELSE "failed"

CallListGet ==
  /\ pc = "idle"
  /\ \E listId \in ListIdArgs, answer \in ExportAnswers :
       \E r \in {ListGet(Client, listId, answer)} : Finish("ListGet", listId, r)

CallWatchlistGet ==
  /\ pc = "idle"
  /\ \E answer \in ExportAnswers :
       \E r \in {WatchlistGet(Client, answer)} : Finish("WatchlistGet", "", r)

CallListsGetAll ==
  /\ pc = "idle"
  /\ \E answer \in OverviewAnswers, exports \in [ScannedIds -> FanoutAnswers] :
       \E r \in {ListsGetAll(Client, answer, exports)} : Finish("ListsGetAll", "", r)

CallUserIdScrape ==
  /\ pc = "idle"
  /\ \E answer \in ProfileAnswers :
       \E r \in {UserIdScrape(Client, answer)} : Finish("UserIdScrape", "", r)

CallWatchlistIdScrape ==
  /\ pc = "idle"
  /\ \E answer \in WatchlistAnswers :
       \E r \in {WatchlistIdScrape(Client, answer)} : Finish("WatchlistIdScrape", "", r)

CallRatingsGet ==
  /\ pc = "idle"
  /\ \E answer \in RatingsAnswers :
       \E r \in {RatingsGet(Client, answer)} : Finish("RatingsGet", "", r)

\* doRequest on a descriptor of its own: the transport, without a caller
CallDoRequest ==
  /\ pc = "idle"
  /\ \E path \in RequestPaths, answer \in TransportAnswers :
       \E r \in {doRequest(Client, RequestFields(path), answer)} :
          Finish("doRequest", "",
                 Returned(r.response, r.err,
                          Exchange(Client, RequestFields(path), answer), config,
                          r.jar))

\* buildTraktListName on a name of its own: it reads and writes no state
CallBuildTraktListName ==
  /\ pc = "idle"
  /\ \E name \in StringsUpTo(MaxLen) :
       /\ call' = [op |-> "buildTraktListName", listId |-> "", name |-> name,
                   cfg |-> config]
       /\ result' = [val |-> [kind |-> "string", s |-> buildTraktListName(name)],
                     err |-> Nil, panic |-> FALSE]
       /\ served' = <<>>
       /\ pc' = "returned"
       /\ UNCHANGED <<config, jar>>

\* the caller takes the result; the client awaits the next call
Return ==
  /\ pc = "returned"
  /\ pc' = "idle"
  /\ call' = NoCall
  /\ served' = <<>>
  /\ result' = NoResult
  /\ UNCHANGED <<config, jar>>

Next ==
  \/ CallNewImdbClient
  \/ CallListGet
  \/ CallWatchlistGet
  \/ CallListsGetAll
  \/ CallUserIdScrape
  \/ CallWatchlistIdScrape
  \/ CallRatingsGet
  \/ CallDoRequest
  \/ CallBuildTraktListName
  \/ Return

Spec == Init /\ [][Next]_vars

(***************************************************************************)
(* Properties.                                                             *)
(***************************************************************************)
\* a call of op has ended: it returned, or it panicked
Ended(op) == pc \in {"returned", "crashed"} /\ call.op = op

\* the i-th request of the call was answered with status st
AnsweredWith(i, st) ==
  i \in 1..Len(served) /\ served[i].answer.sent /\ served[i].answer.StatusCode = st

\* an ApiError of doRequest's 403 case
IsAuthorizationError(e) ==
  /\ e.kind = "ApiError"
  /\ e.StatusCode = StatusForbidden
  /\ e.details = detailsAuthorization

\* an ApiError of doRequest's default case
IsUnexpectedStatusError(e, st) ==
  /\ e.kind = "ApiError"
  /\ e.StatusCode = st
  /\ e.details = detailsUnexpectedStatus(st)

\* an ApiError of ListGet's 404 case, naming listId
IsListNotFoundError(e, listId) ==
  /\ e.kind = "ApiError"
  /\ e.StatusCode = StatusNotFound
  /\ e.details = detailsListNotFound(listId)

\* C1: whatever status the server answers a request with, doRequest returns
\* exactly one of a response and an error: the answer itself, unmodified,
\* for 200 and for 404; an authorization error carrying 403 for 403; an
\* unexpected-status error carrying the status for every other status.
C1_DoRequestClassifies ==
  (Ended("doRequest") /\ Len(served) = 1 /\ served[1].answer.sent) =>
    LET a == served[1].answer
        st == a.StatusCode
        passed == /\ IsNil(result.err)
                  /\ result.val.kind = "response"
                  /\ result.val.StatusCode = st
                  /\ result.val.Body = a.Body
                  /\ result.val.ContentDisposition = a.ContentDisposition
                  /\ result.val.Request = served[1].request
    IN /\ pc = "returned"
       /\ IsNil(result.val) # IsNil(result.err)
       /\ (st = StatusOK => passed)
       /\ (st = StatusNotFound => passed)
       /\ (st = StatusForbidden =>
             IsNil(result.val) /\ IsAuthorizationError(result.err)
             /\ result.err.url = served[1].request.Url)
       /\ (st \notin {StatusOK, StatusForbidden, StatusNotFound} =>
             IsNil(result.val) /\ IsUnexpectedStatusError(result.err, st)
             /\ result.err.url = served[1].request.Url)

\* doRequest was answered with a status of the default case and returned
\* the unexpected-status error carrying it
C1_Witness ==
  /\ Ended("doRequest")
  /\ AnsweredWith(1, 500)
  /\ IsNil(result.val)
  /\ IsUnexpectedStatusError(result.err, 500)

FetchOps == {"ListGet", "WatchlistGet", "ListsGetAll", "RatingsGet"}
ResolveOps == {"UserIdScrape", "WatchlistIdScrape"}

\* C2 as stated: in every fetch and every resolution, a 403 answer to any
\* request of the call, a list export of the lists-overview scan included,
\* makes the call return an authorization error and nothing else.
C2_Original ==
  (/\ pc \in {"returned", "crashed"}
   /\ call.op \in FetchOps \cup ResolveOps
   /\ \E i \in 1..Len(served) : AnsweredWith(i, StatusForbidden))
  => /\ pc = "returned"
     /\ IsNil(result.val)
     /\ IsAuthorizationError(result.err)

\* how many of the requests after the first were answered with status st
RECURSIVE CountAnswered(_, _)
CountAnswered(i, st) ==
  IF i > Len(served) THEN 0
  ELSE (IF AnsweredWith(i, st) THEN 1 ELSE 0) + CountAnswered(i + 1, st)

\* C2, amended: a 403 answer to the request of ListGet, WatchlistGet,
\* RatingsGet, UserIdScrape and WatchlistIdScrape, or to the lists-overview
\* request of ListsGetAll, makes the call return an authorization error, no
\* value, and send nothing more.  A 403 answer to a list export of the
\* lists-overview scan is not surfaced: when ListsGetAll returns it returns
\* no error, and its lists come from exports answered with 200 only.
C2_ForbiddenSurfaces ==
  /\ (/\ pc \in {"returned", "crashed"}
      /\ call.op \in FetchOps \cup ResolveOps
      /\ AnsweredWith(1, StatusForbidden))
     => /\ pc = "returned"
        /\ IsNil(result.val)
        /\ IsAuthorizationError(result.err)
        /\ Len(served) = 1
  /\ (/\ pc = "returned"
      /\ call.op = "ListsGetAll"
      /\ \E i \in 2..Len(served) : AnsweredWith(i, StatusForbidden))
     => /\ IsNil(result.err)
        /\ result.val.kind = "lists"
        /\ Len(result.val.lists) <= CountAnswered(2, StatusOK)

\* ListsGetAll returned lists although a list export of its scan was
\* answered with 403
C2_Witness ==
  /\ pc = "returned"
  /\ call.op = "ListsGetAll"
  /\ \E i \in 2..Len(served) : AnsweredWith(i, StatusForbidden)
  /\ IsNil(result.err)
  /\ Len(result.val.lists) >= 1

\* C3: when the list export of ListGet(listId) is answered with 404, ListGet
\* returns the list-not-found error naming listId and no list; the body is
\* not decoded (whatever it holds, the call returns) and no further request
\* is sent.
C3_ListNotFound ==
  (Ended("ListGet") /\ AnsweredWith(1, StatusNotFound)) =>
    /\ pc = "returned"
    /\ IsNil(result.val)
    /\ IsListNotFoundError(result.err, call.listId)
    /\ result.err.url = imdbPathBase \o imdbPathListExport(call.listId)
    /\ Len(served) = 1

\* ListGet was answered 404 with a body whose decoding would panic, and
\* returned the list-not-found error of its list id
C3_Witness ==
  /\ Ended("ListGet")
  /\ call.listId = "ls2"
  /\ AnsweredWith(1, StatusNotFound)
  /\ served[1].answer.Body.text = "h\nx\n"
  /\ IsListNotFoundError(result.err, "ls2")

\* the ids ListsGetAll discovers on the page: the id attributes of the
\* user-list elements, in document order
RECURSIVE DiscoveredIds(_)
DiscoveredIds(page) ==
  IF Len(page) = 0 THEN <<>>
  ELSE (IF "user-list" \in page[1].classes /\ "id" \in DOMAIN page[1].attrs
        THEN <<page[1].attrs["id"]>> ELSE <<>>)
       \o DiscoveredIds(Tail(page))

\* the answer the call got for the list export of id; NoAnswer when the
\* call sent no such request
ExportAnswerOf(id) ==
  LET hits == {i \in 1..Len(served) :
                 served[i].request.Url = imdbPathBase \o imdbPathListExport(id)}
  IN IF hits = {} THEN NoAnswer ELSE served[CHOOSE i \in hits : TRUE].answer

\* ListGet of id, with the answer this call got for it, returns a list
FetchSucceeds(id) ==
  \E r \in {ListGet(Client, id, ExportAnswerOf(id))} : ~r.panic /\ IsNil(r.err)

RECURSIVE KeepFetched(_)
KeepFetched(ids) ==
  IF Len(ids) = 0 THEN <<>>
  ELSE (IF FetchSucceeds(ids[1]) THEN <<ids[1]>> ELSE <<>>) \o KeepFetched(Tail(ids))

ListIdsOf(lists) == [i \in 1..Len(lists) |-> lists[i].ListId]

\* the first request of the call got a page: a 200 or a 404 with a body
\* that can be read
GotPage ==
  /\ Len(served) >= 1
  /\ served[1].answer.sent
  /\ served[1].answer.StatusCode \in {StatusOK, StatusNotFound}
  /\ ~served[1].answer.Body.readErr

\* C4: whenever the lists-overview request succeeds, ListsGetAll returns no
\* error and exactly the lists of the discovered ids whose ListGet
\* succeeded, in document order; a failing ListGet removes only its own id.
C4_ScanSkipsFailures ==
  (Ended("ListsGetAll") /\ GotPage) =>
    /\ pc = "returned"
    /\ IsNil(result.err)
    /\ result.val.kind = "lists"
    /\ ListIdsOf(result.val.lists)
         = KeepFetched(DiscoveredIds(served[1].answer.Body.page))

\* the page of a profile or watchlist answer yields the attribute
ScrapeFinds(answer, selector, attribute) ==
  /\ answer.sent
  /\ answer.StatusCode \in {StatusOK, StatusNotFound}
  /\ ~answer.Body.readErr
  /\ \E i \in 1..Len(answer.Body.page) :
       /\ Matches(answer.Body.page[i], selector)
       /\ \A j \in 1..(i - 1) : ~Matches(answer.Body.page[j], selector)
       /\ attribute \in DOMAIN answer.Body.page[i].attrs

\* the attribute of the first element of the page that matches the selector
ScrapedValue(answer, selector, attribute) ==
  LET i == CHOOSE k \in 1..Len(answer.Body.page) :
             /\ Matches(answer.Body.page[k], selector)
             /\ \A j \in 1..(k - 1) : ~Matches(answer.Body.page[j], selector)
  IN answer.Body.page[i].attrs[attribute]

ProfileUrl == imdbPathBase \o imdbPathProfile
WatchlistUrl == imdbPathBase \o imdbPathWatchlist

\* C5: the constructor requests the profile page if and only if the
\* supplied user id is "" or "scrape", and before the watchlist page; it
\* requests the watchlist page whenever it gets that far, whatever
\* watchlist id was supplied, and stores the scraped id; it fails, and
\* returns no client, if either resolution fails, and does not request the
\* watchlist page after a failed user id resolution.
C5_HydrateOrder ==
  (pc \in {"returned", "failed"} /\ call.op = "NewImdbClient") =>
    LET scrape == call.cfg.UserId \in {"", "scrape"}
        userOk == ~scrape \/ ScrapeFinds(served[1].answer, ".user-profile.userId",
                                         "data-userid")
        last == served[Len(served)]
        watchOk == userOk /\ ScrapeFinds(last.answer, "meta[property='pageId']",
                                         "content")
    IN /\ Len(served) >= 1
       /\ scrape <=> (\E i \in 1..Len(served) : served[i].request.Url = ProfileUrl)
       /\ scrape => served[1].request.Url = ProfileUrl
       /\ \A i \in 1..Len(served) :
            served[i].request.Url = WatchlistUrl => i = Len(served) /\ userOk
       /\ userOk => (Len(served) = (IF scrape THEN 2 ELSE 1)
                     /\ last.request.Url = WatchlistUrl)
       /\ ~userOk => Len(served) = 1
       /\ (userOk /\ watchOk) =>
            /\ pc = "returned"
            /\ IsNil(result.err)
            /\ result.val.kind = "client"
            /\ config.WatchlistId
                 = ScrapedValue(last.answer, "meta[property='pageId']", "content")
            /\ config.UserId
                 = (IF scrape
                    THEN ScrapedValue(served[1].answer, ".user-profile.userId",
                                      "data-userid")
                    ELSE call.cfg.UserId)
       /\ ~(userOk /\ watchOk) =>
            /\ pc = "failed"
            /\ IsNil(result.val)
            /\ ~IsNil(result.err)

\* a constructor given the user id "scrape" and a watchlist id requested
\* the profile page, then the watchlist page, and stored another watchlist id
C5_Witness ==
  /\ pc = "returned"
  /\ call.op = "NewImdbClient"
  /\ call.cfg.UserId = "scrape"
  /\ call.cfg.WatchlistId = "ls9"
  /\ Len(served) = 2
  /\ served[1].request.Url = ProfileUrl
  /\ served[2].request.Url = WatchlistUrl
  /\ config.WatchlistId = "ls2"

\* the data rows of a csv text
DataRows(body) == Tail(csvRecords(Split(body.text, "\n")))

\* the rating (column 1) and the date (column 2) of a row parse
RowParses(row) ==
  /\ Len(row) >= 3
  /\ Atoi(row[2]).ok
  /\ timeParseDate(row[3]).ok

\* the ratings export was answered with 200 and a body of at least a header
GotCsv ==
  /\ AnsweredWith(1, StatusOK)
  /\ ~served[1].answer.Body.readErr
  /\ Len(csvRecords(Split(served[1].answer.Body.text, "\n"))) >= 1

\* C6: RatingsGet is all or nothing: if the rating or the date of any data
\* row cannot be parsed it returns an error and no items; otherwise it
\* returns one item per data row, in row order, each with a rating and a
\* rating date.
C6_RatingsAllOrNothing ==
  (Ended("RatingsGet") /\ GotCsv) =>
    LET rows == DataRows(served[1].answer.Body)
    IN /\ pc = "returned"
       /\ (\E i \in 1..Len(rows) : ~RowParses(rows[i])) =>
            IsNil(result.val) /\ ~IsNil(result.err)
       /\ (\A i \in 1..Len(rows) : RowParses(rows[i])) =>
            /\ IsNil(result.err)
            /\ result.val.kind = "items"
            /\ Len(result.val.items) = Len(rows)
            /\ \A i \in 1..Len(rows) :
                 /\ result.val.items[i].Id = rows[i][1]
                 /\ ~IsNil(result.val.items[i].Rating)
                 /\ ~IsNil(result.val.items[i].RatingDate)

\* the Content-Disposition value is present, parses, and has a filename
HasFilename(disposition) ==
  /\ disposition # ""
  /\ \E parsed \in {ParseMediaType(disposition)} :
       ~parsed.err /\ "filename" \in DOMAIN parsed.params

\* C7: for a list export answered with 200, ListGet returns a list only if
\* the Content-Disposition header is present, parses and has a filename
\* parameter; otherwise it returns an error and no list.
C7_FilenameRequired ==
  (Ended("ListGet") /\ AnsweredWith(1, StatusOK)) =>
    /\ pc = "returned"
    /\ ~IsNil(result.val) => HasFilename(served[1].answer.ContentDisposition)
    /\ ~HasFilename(served[1].answer.ContentDisposition) =>
         IsNil(result.val) /\ ~IsNil(result.err)

IsSlug(t) == \A i \in 1..Len(t) : SlugChar(Char(t, i))

SlugOfName(list) ==
  /\ list.TraktListSlug = buildTraktListName(list.ListName)
  /\ IsSlug(list.TraktListSlug)

\* C8: buildTraktListName returns, for every name, a string of the
\* characters [-a-z0-9] only, which it maps to itself; and the slug of
\* every list ListGet, WatchlistGet and ListsGetAll return is
\* buildTraktListName of the list's name.
C8_SlugIdempotent ==
  /\ (pc = "returned" /\ call.op = "buildTraktListName") =>
       /\ IsSlug(result.val.s)
       /\ buildTraktListName(result.val.s) = result.val.s
  /\ (pc = "returned" /\ call.op \in {"ListGet", "WatchlistGet"}
      /\ ~IsNil(result.val)) => SlugOfName(result.val)
  /\ (pc = "returned" /\ call.op = "ListsGetAll" /\ ~IsNil(result.val)) =>
       \A i \in 1..Len(result.val.lists) : SlugOfName(result.val.lists[i])

\* buildTraktListName was given a name with a space, an upper-case letter
\* and a character outside the class
C8_Witness ==
  /\ pc = "returned"
  /\ call.op = "buildTraktListName"
  /\ call.name = "A !"
  /\ result.val.s = "a-"

\* C9: a row with fewer fields than the code reads never makes ListGet or
\* RatingsGet end without returning: every call answered with 200 returns
\* a value or an error.
C9_ShortRowsReturn ==
  (call.op \in {"ListGet", "RatingsGet"} /\ AnsweredWith(1, StatusOK)) =>
    /\ pc # "crashed"
    /\ ~result.panic

\* C10: the two cookie values of the config never change; the fetches leave
\* both ids as they are; UserIdScrape changes the user id only, and WatchlistIdScrape
\* the watchlist id only, each only when it succeeds, and then to the value
\* just scraped.
C10_Step ==
  /\ config'.CookieAtMain = config.CookieAtMain
  /\ config'.CookieUbidMain = config.CookieUbidMain
  /\ (pc = "idle" /\ call'.op \in FetchOps \cup {"doRequest", "buildTraktListName"}) =>
       config' = config
  /\ (pc = "idle" /\ call'.op = "UserIdScrape") =>
       /\ config'.WatchlistId = config.WatchlistId
       /\ ~IsNil(result'.err) => config'.UserId = config.UserId
       /\ IsNil(result'.err) =>
            /\ ScrapeFinds(served'[1].answer, ".user-profile.userId", "data-userid")
            /\ config'.UserId = ScrapedValue(served'[1].answer, ".user-profile.userId",
                                             "data-userid")
  /\ (pc = "idle" /\ call'.op = "WatchlistIdScrape") =>
       /\ config'.UserId = config.UserId
       /\ ~IsNil(result'.err) => config'.WatchlistId = config.WatchlistId
       /\ IsNil(result'.err) =>
            /\ ScrapeFinds(served'[1].answer, "meta[property='pageId']", "content")
            /\ config'.WatchlistId = ScrapedValue(served'[1].answer,
                                                  "meta[property='pageId']", "content")

C10_Frame == [][C10_Step]_vars

\* a repeated UserIdScrape succeeded and overwrote the stored user id
C10_Witness ==
  /\ pc = "returned"
  /\ call.op = "UserIdScrape"
  /\ IsNil(result.err)
  /\ call.cfg.UserId = "ur1"
  /\ config.UserId = "ur2"

====
